---- MODULE Spec2Model ----
(***************************************************************************)
(* A model of pkg/generator of crd-to-openapischema: the source reader,    *)
(* the CRD decoder, the schema extractor with its file naming, and the     *)
(* file writer, as Generate runs them.                                     *)
(*                                                                         *)
(* Representation.  A Go string is a sequence of one-character strings     *)
(* (<<"v","1">> is "v1").  A cleaned absolute path is the sequence of its  *)
(* segments (<<c, o>> is "/c/o", <<>> is "/").  A Go map is a function     *)
(* whose domain is its key set.  A nil pointer is a record whose field     *)
(* isNil is TRUE.                                                          *)
(***************************************************************************)
EXTENDS Integers, Sequences, FiniteSets, TLC

VARIABLES
    pc,                 \* position in Generate / in the pure-function call
    prev,               \* how the previous invocation ended
    fsStart,            \* the filesystem when this invocation began
    specPath,           \* customResourceDefinitionPath, the argument
    outputDirArg,       \* outputDir, the argument
    workdir,            \* how the environment answers filepath.Abs and os.Getwd
    source,             \* what the path or URL holds (the environment)
    outputDir,          \* outputDir after lines 28-37
    crdObj,             \* decodeCRD's result
    schemas,            \* GenerateString's result map: filename -> JSON
    pending,            \* keys of schemas the range loop has not visited
    files,              \* Generate's result slice
    msg,                \* Generate's msg: one line per failure
    err,                \* the error Generate returns
    fs,                 \* the filesystem: path -> entry
    faults,             \* I/O faults the environment has injected
    failed,             \* paths on which an I/O call failed in this run
    touched,            \* paths Generate created, removed or wrote
    httpIssued,         \* an HTTP request was sent
    decoderRan,         \* decodeCRD was entered
    extractorRan,       \* generateSchemaFromCRD was entered
    resourceKind,       \* generateFilename's argument
    resourceAPIVersion, \* generateFilename's argument
    filename            \* generateFilename's result

vars == <<pc, prev, fsStart, specPath, outputDirArg, workdir, source, outputDir, crdObj, schemas, pending,
          files, msg, err, fs, faults, failed, touched, httpIssued,
          decoderRan, extractorRan, resourceKind, resourceAPIVersion,
          filename>>

-----------------------------------------------------------------------------
(* Bounds of the model. *)

\* longest resourceAPIVersion drawn for generateFilename
MaxLen == 3
\* longest version list of a CRD drawn for generateSchemaFromCRD
MaxVersions == 2
\* I/O faults the environment injects in one behaviour
MaxFaults == 1

-----------------------------------------------------------------------------
(* Strings. *)

\* unicode.ToLower: the simple lower-case mapping of the Unicode character
\* database, one entry for every rune whose lower-case form differs from
\* itself (the 1433 runes of Unicode 14.0 and 15.0, U+0041 to U+1E921).
\* Upper[i] maps to Lower[i]; several capitals may share one lower-case
\* form.  A rune that a TLA+ string literal cannot hold is written by its
\* code point, "U+0416" for the Cyrillic capital ZHE.
Upper == <<"A","B","C","D","E","F","G","H","I","J","K","L","M","N","O",
           "P","Q","R","S","T","U","V","W","X","Y","Z","À","Á","Â","Ã",
           "Ä","Å","Æ","Ç","È","É","Ê","Ë","Ì","Í","Î","Ï","Ð","Ñ","Ò",
           "Ó","Ô","Õ","Ö","Ø","Ù","Ú","Û","Ü","Ý","Þ","U+0100",
           "U+0102","U+0104","U+0106","U+0108","U+010A","U+010C",
           "U+010E","U+0110","U+0112","U+0114","U+0116","U+0118",
           "U+011A","U+011C","U+011E","U+0120","U+0122","U+0124",
           "U+0126","U+0128","U+012A","U+012C","U+012E","U+0130",
           "U+0132","U+0134","U+0136","U+0139","U+013B","U+013D",
           "U+013F","U+0141","U+0143","U+0145","U+0147","U+014A",
           "U+014C","U+014E","U+0150","U+0152","U+0154","U+0156",
           "U+0158","U+015A","U+015C","U+015E","U+0160","U+0162",
           "U+0164","U+0166","U+0168","U+016A","U+016C","U+016E",
           "U+0170","U+0172","U+0174","U+0176","U+0178","U+0179",
           "U+017B","U+017D","Ɓ","Ƃ","Ƅ","Ɔ","Ƈ","Ɖ","Ɗ","Ƌ","Ǝ","Ə",
           "Ɛ","Ƒ","Ɠ","Ɣ","Ɩ","Ɨ","Ƙ","Ɯ","Ɲ","Ɵ","Ơ","Ƣ","Ƥ","Ʀ","Ƨ",
           "Ʃ","Ƭ","Ʈ","Ư","Ʊ","Ʋ","Ƴ","Ƶ","Ʒ","Ƹ","Ƽ","Ǆ","ǅ","Ǉ","ǈ",
           "Ǌ","ǋ","Ǎ","Ǐ","Ǒ","Ǔ","Ǖ","Ǘ","Ǚ","Ǜ","Ǟ","Ǡ","Ǣ","Ǥ","Ǧ",
           "Ǩ","Ǫ","Ǭ","Ǯ","Ǳ","ǲ","Ǵ","Ƕ","Ƿ","Ǹ","Ǻ","Ǽ","Ǿ",
           "U+0200","U+0202","U+0204","U+0206","U+0208","U+020A",
           "U+020C","U+020E","U+0210","U+0212","U+0214","U+0216",
           "U+0218","U+021A","U+021C","U+021E","U+0220","U+0222",
           "U+0224","U+0226","U+0228","U+022A","U+022C","U+022E",
           "U+0230","U+0232","U+023A","U+023B","U+023D","U+023E",
           "U+0241","U+0243","U+0244","U+0245","U+0246","U+0248",
           "U+024A","U+024C","U+024E","U+0370","U+0372","U+0376",
           "U+037F","Ά","Έ","Ή","Ί","Ό","Ύ","Ώ","Α","Β","Γ","Δ","Ε",
           "Ζ","Η","Θ","Ι","Κ","Λ","Μ","Ν","Ξ","Ο","Π","Ρ","Σ","Τ","Υ",
           "Φ","Χ","Ψ","Ω","Ϊ","Ϋ","Ϗ","Ϙ","Ϛ","Ϝ","Ϟ","Ϡ","Ϣ","Ϥ","Ϧ",
           "Ϩ","Ϫ","Ϭ","Ϯ","ϴ","Ϸ","Ϲ","Ϻ","Ͻ","Ͼ","Ͽ","U+0400",
           "U+0401","U+0402","U+0403","U+0404","U+0405","U+0406",
           "U+0407","U+0408","U+0409","U+040A","U+040B","U+040C",
           "U+040D","U+040E","U+040F","U+0410","U+0411","U+0412",
           "U+0413","U+0414","U+0415","U+0416","U+0417","U+0418",
           "U+0419","U+041A","U+041B","U+041C","U+041D","U+041E",
           "U+041F","U+0420","U+0421","U+0422","U+0423","U+0424",
           "U+0425","U+0426","U+0427","U+0428","U+0429","U+042A",
           "U+042B","U+042C","U+042D","U+042E","U+042F","U+0460",
           "U+0462","U+0464","U+0466","U+0468","U+046A","U+046C",
           "U+046E","U+0470","U+0472","U+0474","U+0476","U+0478",
           "U+047A","U+047C","U+047E","Ҁ","Ҋ","Ҍ","Ҏ","Ґ","Ғ","Ҕ","Җ",
           "Ҙ","Қ","Ҝ","Ҟ","Ҡ","Ң","Ҥ","Ҧ","Ҩ","Ҫ","Ҭ","Ү","Ұ","Ҳ","Ҵ",
           "Ҷ","Ҹ","Һ","Ҽ","Ҿ","Ӏ","Ӂ","Ӄ","Ӆ","Ӈ","Ӊ","Ӌ","Ӎ","Ӑ","Ӓ",
           "Ӕ","Ӗ","Ә","Ӛ","Ӝ","Ӟ","Ӡ","Ӣ","Ӥ","Ӧ","Ө","Ӫ","Ӭ","Ӯ","Ӱ",
           "Ӳ","Ӵ","Ӷ","Ӹ","Ӻ","Ӽ","Ӿ","U+0500","U+0502","U+0504",
           "U+0506","U+0508","U+050A","U+050C","U+050E","U+0510",
           "U+0512","U+0514","U+0516","U+0518","U+051A","U+051C",
           "U+051E","U+0520","U+0522","U+0524","U+0526","U+0528",
           "U+052A","U+052C","U+052E","U+0531","U+0532","U+0533",
           "U+0534","U+0535","U+0536","U+0537","U+0538","U+0539",
           "U+053A","U+053B","U+053C","U+053D","U+053E","U+053F",
           "U+0540","U+0541","U+0542","U+0543","U+0544","U+0545",
           "U+0546","U+0547","U+0548","U+0549","U+054A","U+054B",
           "U+054C","U+054D","U+054E","U+054F","U+0550","U+0551",
           "U+0552","U+0553","U+0554","U+0555","U+0556","Ⴀ","Ⴁ","Ⴂ",
           "Ⴃ","Ⴄ","Ⴅ","Ⴆ","Ⴇ","Ⴈ","Ⴉ","Ⴊ","Ⴋ","Ⴌ","Ⴍ","Ⴎ","Ⴏ","Ⴐ","Ⴑ",
           "Ⴒ","Ⴓ","Ⴔ","Ⴕ","Ⴖ","Ⴗ","Ⴘ","Ⴙ","Ⴚ","Ⴛ","Ⴜ","Ⴝ","Ⴞ","Ⴟ","Ⴠ",
           "Ⴡ","Ⴢ","Ⴣ","Ⴤ","Ⴥ","Ⴧ","Ⴭ","Ꭰ","Ꭱ","Ꭲ","Ꭳ","Ꭴ","Ꭵ","Ꭶ","Ꭷ",
           "Ꭸ","Ꭹ","Ꭺ","Ꭻ","Ꭼ","Ꭽ","Ꭾ","Ꭿ","Ꮀ","Ꮁ","Ꮂ","Ꮃ","Ꮄ","Ꮅ","Ꮆ",
           "Ꮇ","Ꮈ","Ꮉ","Ꮊ","Ꮋ","Ꮌ","Ꮍ","Ꮎ","Ꮏ","Ꮐ","Ꮑ","Ꮒ","Ꮓ","Ꮔ","Ꮕ",
           "Ꮖ","Ꮗ","Ꮘ","Ꮙ","Ꮚ","Ꮛ","Ꮜ","Ꮝ","Ꮞ","Ꮟ","Ꮠ","Ꮡ","Ꮢ","Ꮣ","Ꮤ",
           "Ꮥ","Ꮦ","Ꮧ","Ꮨ","Ꮩ","Ꮪ","Ꮫ","Ꮬ","Ꮭ","Ꮮ","Ꮯ","Ꮰ","Ꮱ","Ꮲ","Ꮳ",
           "Ꮴ","Ꮵ","Ꮶ","Ꮷ","Ꮸ","Ꮹ","Ꮺ","Ꮻ","Ꮼ","Ꮽ","Ꮾ","Ꮿ","Ᏸ","Ᏹ","Ᏺ",
           "Ᏻ","Ᏼ","Ᏽ","Ა","Ბ","Გ","Დ","Ე","Ვ","Ზ","Თ","Ი","Კ","Ლ","Მ",
           "Ნ","Ო","Პ","Ჟ","Რ","Ს","Ტ","Უ","Ფ","Ქ","Ღ","Ყ","Შ","Ჩ","Ც",
           "Ძ","Წ","Ჭ","Ხ","Ჯ","Ჰ","Ჱ","Ჲ","Ჳ","Ჴ","Ჵ","Ჶ","Ჷ","Ჸ","Ჹ",
           "Ჺ","Ჽ","Ჾ","Ჿ","U+1E00","U+1E02","U+1E04","U+1E06",
           "U+1E08","U+1E0A","U+1E0C","U+1E0E","U+1E10","U+1E12",
           "U+1E14","U+1E16","U+1E18","U+1E1A","U+1E1C","U+1E1E",
           "U+1E20","U+1E22","U+1E24","U+1E26","U+1E28","U+1E2A",
           "U+1E2C","U+1E2E","U+1E30","U+1E32","U+1E34","U+1E36",
           "U+1E38","U+1E3A","U+1E3C","U+1E3E","U+1E40","U+1E42",
           "U+1E44","U+1E46","U+1E48","U+1E4A","U+1E4C","U+1E4E",
           "U+1E50","U+1E52","U+1E54","U+1E56","U+1E58","U+1E5A",
           "U+1E5C","U+1E5E","U+1E60","U+1E62","U+1E64","U+1E66",
           "U+1E68","U+1E6A","U+1E6C","U+1E6E","U+1E70","U+1E72",
           "U+1E74","U+1E76","U+1E78","U+1E7A","U+1E7C","U+1E7E","Ẁ",
           "Ẃ","Ẅ","Ẇ","Ẉ","Ẋ","Ẍ","Ẏ","Ẑ","Ẓ","Ẕ","ẞ","Ạ","Ả","Ấ","Ầ",
           "Ẩ","Ẫ","Ậ","Ắ","Ằ","Ẳ","Ẵ","Ặ","Ẹ","Ẻ","Ẽ","Ế","Ề","Ể","Ễ",
           "Ệ","Ỉ","Ị","Ọ","Ỏ","Ố","Ồ","Ổ","Ỗ","Ộ","Ớ","Ờ","Ở","Ỡ","Ợ",
           "Ụ","Ủ","Ứ","Ừ","Ử","Ữ","Ự","Ỳ","Ỵ","Ỷ","Ỹ","Ỻ","Ỽ","Ỿ",
           "U+1F08","U+1F09","U+1F0A","U+1F0B","U+1F0C","U+1F0D",
           "U+1F0E","U+1F0F","U+1F18","U+1F19","U+1F1A","U+1F1B",
           "U+1F1C","U+1F1D","U+1F28","U+1F29","U+1F2A","U+1F2B",
           "U+1F2C","U+1F2D","U+1F2E","U+1F2F","U+1F38","U+1F39",
           "U+1F3A","U+1F3B","U+1F3C","U+1F3D","U+1F3E","U+1F3F",
           "U+1F48","U+1F49","U+1F4A","U+1F4B","U+1F4C","U+1F4D",
           "U+1F59","U+1F5B","U+1F5D","U+1F5F","U+1F68","U+1F69",
           "U+1F6A","U+1F6B","U+1F6C","U+1F6D","U+1F6E","U+1F6F","ᾈ",
           "ᾉ","ᾊ","ᾋ","ᾌ","ᾍ","ᾎ","ᾏ","ᾘ","ᾙ","ᾚ","ᾛ","ᾜ","ᾝ","ᾞ","ᾟ",
           "ᾨ","ᾩ","ᾪ","ᾫ","ᾬ","ᾭ","ᾮ","ᾯ","Ᾰ","Ᾱ","Ὰ","Ά","ᾼ","Ὲ","Έ",
           "Ὴ","Ή","ῌ","Ῐ","Ῑ","Ὶ","Ί","Ῠ","Ῡ","Ὺ","Ύ","Ῥ","Ὸ","Ό","Ὼ",
           "Ώ","ῼ","U+2126","U+212A","U+212B","U+2132","U+2160",
           "U+2161","U+2162","U+2163","U+2164","U+2165","U+2166",
           "U+2167","U+2168","U+2169","U+216A","U+216B","U+216C",
           "U+216D","U+216E","U+216F","Ↄ","Ⓐ","Ⓑ","Ⓒ","Ⓓ","Ⓔ","Ⓕ","Ⓖ",
           "Ⓗ","Ⓘ","Ⓙ","Ⓚ","Ⓛ","Ⓜ","Ⓝ","Ⓞ","Ⓟ","Ⓠ","Ⓡ","Ⓢ","Ⓣ","Ⓤ","Ⓥ",
           "Ⓦ","Ⓧ","Ⓨ","Ⓩ","U+2C00","U+2C01","U+2C02","U+2C03",
           "U+2C04","U+2C05","U+2C06","U+2C07","U+2C08","U+2C09",
           "U+2C0A","U+2C0B","U+2C0C","U+2C0D","U+2C0E","U+2C0F",
           "U+2C10","U+2C11","U+2C12","U+2C13","U+2C14","U+2C15",
           "U+2C16","U+2C17","U+2C18","U+2C19","U+2C1A","U+2C1B",
           "U+2C1C","U+2C1D","U+2C1E","U+2C1F","U+2C20","U+2C21",
           "U+2C22","U+2C23","U+2C24","U+2C25","U+2C26","U+2C27",
           "U+2C28","U+2C29","U+2C2A","U+2C2B","U+2C2C","U+2C2D",
           "U+2C2E","U+2C2F","U+2C60","U+2C62","U+2C63","U+2C64",
           "U+2C67","U+2C69","U+2C6B","U+2C6D","U+2C6E","U+2C6F",
           "U+2C70","U+2C72","U+2C75","U+2C7E","U+2C7F","Ⲁ","Ⲃ","Ⲅ",
           "Ⲇ","Ⲉ","Ⲋ","Ⲍ","Ⲏ","Ⲑ","Ⲓ","Ⲕ","Ⲗ","Ⲙ","Ⲛ","Ⲝ","Ⲟ","Ⲡ","Ⲣ",
           "Ⲥ","Ⲧ","Ⲩ","Ⲫ","Ⲭ","Ⲯ","Ⲱ","Ⲳ","Ⲵ","Ⲷ","Ⲹ","Ⲻ","Ⲽ","Ⲿ","Ⳁ",
           "Ⳃ","Ⳅ","Ⳇ","Ⳉ","Ⳋ","Ⳍ","Ⳏ","Ⳑ","Ⳓ","Ⳕ","Ⳗ","Ⳙ","Ⳛ","Ⳝ","Ⳟ",
           "Ⳡ","Ⳣ","Ⳬ","Ⳮ","Ⳳ","U+A640","U+A642","U+A644","U+A646",
           "U+A648","U+A64A","U+A64C","U+A64E","U+A650","U+A652",
           "U+A654","U+A656","U+A658","U+A65A","U+A65C","U+A65E",
           "U+A660","U+A662","U+A664","U+A666","U+A668","U+A66A",
           "U+A66C","Ꚁ","Ꚃ","Ꚅ","Ꚇ","Ꚉ","Ꚋ","Ꚍ","Ꚏ","Ꚑ","Ꚓ","Ꚕ","Ꚗ",
           "Ꚙ","Ꚛ","U+A722","U+A724","U+A726","U+A728","U+A72A",
           "U+A72C","U+A72E","U+A732","U+A734","U+A736","U+A738",
           "U+A73A","U+A73C","U+A73E","U+A740","U+A742","U+A744",
           "U+A746","U+A748","U+A74A","U+A74C","U+A74E","U+A750",
           "U+A752","U+A754","U+A756","U+A758","U+A75A","U+A75C",
           "U+A75E","U+A760","U+A762","U+A764","U+A766","U+A768",
           "U+A76A","U+A76C","U+A76E","U+A779","U+A77B","U+A77D",
           "U+A77E","Ꞁ","Ꞃ","Ꞅ","Ꞇ","Ꞌ","Ɥ","Ꞑ","Ꞓ","Ꞗ","Ꞙ","Ꞛ","Ꞝ",
           "Ꞟ","Ꞡ","Ꞣ","Ꞥ","Ꞧ","Ꞩ","Ɦ","Ɜ","Ɡ","Ɬ","Ɪ","Ʞ","Ʇ","Ʝ","Ꭓ",
           "Ꞵ","Ꞷ","Ꞹ","Ꞻ","Ꞽ","Ꞿ","Ꟁ","Ꟃ","Ꞔ","Ʂ","Ᶎ","Ꟈ","Ꟊ","Ꟑ","Ꟗ",
           "Ꟙ","Ꟶ","U+FF21","U+FF22","U+FF23","U+FF24","U+FF25",
           "U+FF26","U+FF27","U+FF28","U+FF29","U+FF2A","U+FF2B",
           "U+FF2C","U+FF2D","U+FF2E","U+FF2F","U+FF30","U+FF31",
           "U+FF32","U+FF33","U+FF34","U+FF35","U+FF36","U+FF37",
           "U+FF38","U+FF39","U+FF3A","U+10400","U+10401","U+10402",
           "U+10403","U+10404","U+10405","U+10406","U+10407","U+10408",
           "U+10409","U+1040A","U+1040B","U+1040C","U+1040D","U+1040E",
           "U+1040F","U+10410","U+10411","U+10412","U+10413","U+10414",
           "U+10415","U+10416","U+10417","U+10418","U+10419","U+1041A",
           "U+1041B","U+1041C","U+1041D","U+1041E","U+1041F","U+10420",
           "U+10421","U+10422","U+10423","U+10424","U+10425","U+10426",
           "U+10427","U+104B0","U+104B1","U+104B2","U+104B3","U+104B4",
           "U+104B5","U+104B6","U+104B7","U+104B8","U+104B9","U+104BA",
           "U+104BB","U+104BC","U+104BD","U+104BE","U+104BF","U+104C0",
           "U+104C1","U+104C2","U+104C3","U+104C4","U+104C5","U+104C6",
           "U+104C7","U+104C8","U+104C9","U+104CA","U+104CB","U+104CC",
           "U+104CD","U+104CE","U+104CF","U+104D0","U+104D1","U+104D2",
           "U+104D3","U+10570","U+10571","U+10572","U+10573","U+10574",
           "U+10575","U+10576","U+10577","U+10578","U+10579","U+1057A",
           "U+1057C","U+1057D","U+1057E","U+1057F","U+10580","U+10581",
           "U+10582","U+10583","U+10584","U+10585","U+10586","U+10587",
           "U+10588","U+10589","U+1058A","U+1058C","U+1058D","U+1058E",
           "U+1058F","U+10590","U+10591","U+10592","U+10594","U+10595",
           "U+10C80","U+10C81","U+10C82","U+10C83","U+10C84","U+10C85",
           "U+10C86","U+10C87","U+10C88","U+10C89","U+10C8A","U+10C8B",
           "U+10C8C","U+10C8D","U+10C8E","U+10C8F","U+10C90","U+10C91",
           "U+10C92","U+10C93","U+10C94","U+10C95","U+10C96","U+10C97",
           "U+10C98","U+10C99","U+10C9A","U+10C9B","U+10C9C","U+10C9D",
           "U+10C9E","U+10C9F","U+10CA0","U+10CA1","U+10CA2","U+10CA3",
           "U+10CA4","U+10CA5","U+10CA6","U+10CA7","U+10CA8","U+10CA9",
           "U+10CAA","U+10CAB","U+10CAC","U+10CAD","U+10CAE","U+10CAF",
           "U+10CB0","U+10CB1","U+10CB2","U+118A0","U+118A1","U+118A2",
           "U+118A3","U+118A4","U+118A5","U+118A6","U+118A7","U+118A8",
           "U+118A9","U+118AA","U+118AB","U+118AC","U+118AD","U+118AE",
           "U+118AF","U+118B0","U+118B1","U+118B2","U+118B3","U+118B4",
           "U+118B5","U+118B6","U+118B7","U+118B8","U+118B9","U+118BA",
           "U+118BB","U+118BC","U+118BD","U+118BE","U+118BF","U+16E40",
           "U+16E41","U+16E42","U+16E43","U+16E44","U+16E45","U+16E46",
           "U+16E47","U+16E48","U+16E49","U+16E4A","U+16E4B","U+16E4C",
           "U+16E4D","U+16E4E","U+16E4F","U+16E50","U+16E51","U+16E52",
           "U+16E53","U+16E54","U+16E55","U+16E56","U+16E57","U+16E58",
           "U+16E59","U+16E5A","U+16E5B","U+16E5C","U+16E5D","U+16E5E",
           "U+16E5F","U+1E900","U+1E901","U+1E902","U+1E903","U+1E904",
           "U+1E905","U+1E906","U+1E907","U+1E908","U+1E909","U+1E90A",
           "U+1E90B","U+1E90C","U+1E90D","U+1E90E","U+1E90F","U+1E910",
           "U+1E911","U+1E912","U+1E913","U+1E914","U+1E915","U+1E916",
           "U+1E917","U+1E918","U+1E919","U+1E91A","U+1E91B","U+1E91C",
           "U+1E91D","U+1E91E","U+1E91F","U+1E920","U+1E921">>
Lower == <<"a","b","c","d","e","f","g","h","i","j","k","l","m","n","o",
           "p","q","r","s","t","u","v","w","x","y","z","à","á","â","ã",
           "ä","å","æ","ç","è","é","ê","ë","ì","í","î","ï","ð","ñ","ò",
           "ó","ô","õ","ö","ø","ù","ú","û","ü","ý","þ","U+0101",
           "U+0103","U+0105","U+0107","U+0109","U+010B","U+010D",
           "U+010F","U+0111","U+0113","U+0115","U+0117","U+0119",
           "U+011B","U+011D","U+011F","U+0121","U+0123","U+0125",
           "U+0127","U+0129","U+012B","U+012D","U+012F","i","U+0133",
           "U+0135","U+0137","U+013A","U+013C","U+013E","U+0140",
           "U+0142","U+0144","U+0146","U+0148","U+014B","U+014D",
           "U+014F","U+0151","U+0153","U+0155","U+0157","U+0159",
           "U+015B","U+015D","U+015F","U+0161","U+0163","U+0165",
           "U+0167","U+0169","U+016B","U+016D","U+016F","U+0171",
           "U+0173","U+0175","U+0177","ÿ","U+017A","U+017C","U+017E",
           "U+0253","ƃ","ƅ","U+0254","ƈ","U+0256","U+0257","ƌ","ǝ",
           "U+0259","U+025B","ƒ","U+0260","U+0263","U+0269","U+0268",
           "ƙ","U+026F","U+0272","U+0275","ơ","ƣ","ƥ","ʀ","ƨ","ʃ","ƭ",
           "ʈ","ư","ʊ","ʋ","ƴ","ƶ","ʒ","ƹ","ƽ","ǆ","ǆ","ǉ","ǉ","ǌ","ǌ",
           "ǎ","ǐ","ǒ","ǔ","ǖ","ǘ","ǚ","ǜ","ǟ","ǡ","ǣ","ǥ","ǧ","ǩ","ǫ",
           "ǭ","ǯ","ǳ","ǳ","ǵ","ƕ","ƿ","ǹ","ǻ","ǽ","ǿ","U+0201",
           "U+0203","U+0205","U+0207","U+0209","U+020B","U+020D",
           "U+020F","U+0211","U+0213","U+0215","U+0217","U+0219",
           "U+021B","U+021D","U+021F","ƞ","U+0223","U+0225","U+0227",
           "U+0229","U+022B","U+022D","U+022F","U+0231","U+0233",
           "U+2C65","U+023C","ƚ","U+2C66","U+0242","ƀ","ʉ","ʌ",
           "U+0247","U+0249","U+024B","U+024D","U+024F","U+0371",
           "U+0373","U+0377","ϳ","ά","έ","ή","ί","ό","ύ","ώ","α","β",
           "γ","δ","ε","ζ","η","θ","ι","κ","λ","μ","ν","ξ","ο","π","ρ",
           "σ","τ","υ","φ","χ","ψ","ω","ϊ","ϋ","ϗ","ϙ","ϛ","ϝ","ϟ","ϡ",
           "ϣ","ϥ","ϧ","ϩ","ϫ","ϭ","ϯ","θ","ϸ","ϲ","ϻ","U+037B",
           "U+037C","U+037D","U+0450","U+0451","U+0452","U+0453",
           "U+0454","U+0455","U+0456","U+0457","U+0458","U+0459",
           "U+045A","U+045B","U+045C","U+045D","U+045E","U+045F",
           "U+0430","U+0431","U+0432","U+0433","U+0434","U+0435",
           "U+0436","U+0437","U+0438","U+0439","U+043A","U+043B",
           "U+043C","U+043D","U+043E","U+043F","U+0440","U+0441",
           "U+0442","U+0443","U+0444","U+0445","U+0446","U+0447",
           "U+0448","U+0449","U+044A","U+044B","U+044C","U+044D",
           "U+044E","U+044F","U+0461","U+0463","U+0465","U+0467",
           "U+0469","U+046B","U+046D","U+046F","U+0471","U+0473",
           "U+0475","U+0477","U+0479","U+047B","U+047D","U+047F","ҁ",
           "ҋ","ҍ","ҏ","ґ","ғ","ҕ","җ","ҙ","қ","ҝ","ҟ","ҡ","ң","ҥ","ҧ",
           "ҩ","ҫ","ҭ","ү","ұ","ҳ","ҵ","ҷ","ҹ","һ","ҽ","ҿ","ӏ","ӂ","ӄ",
           "ӆ","ӈ","ӊ","ӌ","ӎ","ӑ","ӓ","ӕ","ӗ","ә","ӛ","ӝ","ӟ","ӡ","ӣ",
           "ӥ","ӧ","ө","ӫ","ӭ","ӯ","ӱ","ӳ","ӵ","ӷ","ӹ","ӻ","ӽ","ӿ",
           "U+0501","U+0503","U+0505","U+0507","U+0509","U+050B",
           "U+050D","U+050F","U+0511","U+0513","U+0515","U+0517",
           "U+0519","U+051B","U+051D","U+051F","U+0521","U+0523",
           "U+0525","U+0527","U+0529","U+052B","U+052D","U+052F",
           "U+0561","U+0562","U+0563","U+0564","U+0565","U+0566",
           "U+0567","U+0568","U+0569","U+056A","U+056B","U+056C",
           "U+056D","U+056E","U+056F","U+0570","U+0571","U+0572",
           "U+0573","U+0574","U+0575","U+0576","U+0577","U+0578",
           "U+0579","U+057A","U+057B","U+057C","U+057D","U+057E",
           "U+057F","ր","ց","ւ","փ","ք","օ","ֆ","U+2D00","U+2D01",
           "U+2D02","U+2D03","U+2D04","U+2D05","U+2D06","U+2D07",
           "U+2D08","U+2D09","U+2D0A","U+2D0B","U+2D0C","U+2D0D",
           "U+2D0E","U+2D0F","U+2D10","U+2D11","U+2D12","U+2D13",
           "U+2D14","U+2D15","U+2D16","U+2D17","U+2D18","U+2D19",
           "U+2D1A","U+2D1B","U+2D1C","U+2D1D","U+2D1E","U+2D1F",
           "U+2D20","U+2D21","U+2D22","U+2D23","U+2D24","U+2D25",
           "U+2D27","U+2D2D","U+AB70","U+AB71","U+AB72","U+AB73",
           "U+AB74","U+AB75","U+AB76","U+AB77","U+AB78","U+AB79",
           "U+AB7A","U+AB7B","U+AB7C","U+AB7D","U+AB7E","U+AB7F","ꮀ",
           "ꮁ","ꮂ","ꮃ","ꮄ","ꮅ","ꮆ","ꮇ","ꮈ","ꮉ","ꮊ","ꮋ","ꮌ","ꮍ","ꮎ","ꮏ",
           "ꮐ","ꮑ","ꮒ","ꮓ","ꮔ","ꮕ","ꮖ","ꮗ","ꮘ","ꮙ","ꮚ","ꮛ","ꮜ","ꮝ","ꮞ",
           "ꮟ","ꮠ","ꮡ","ꮢ","ꮣ","ꮤ","ꮥ","ꮦ","ꮧ","ꮨ","ꮩ","ꮪ","ꮫ","ꮬ","ꮭ",
           "ꮮ","ꮯ","ꮰ","ꮱ","ꮲ","ꮳ","ꮴ","ꮵ","ꮶ","ꮷ","ꮸ","ꮹ","ꮺ","ꮻ","ꮼ",
           "ꮽ","ꮾ","ꮿ","ᏸ","ᏹ","ᏺ","ᏻ","ᏼ","ᏽ","ა","ბ","გ","დ","ე","ვ",
           "ზ","თ","ი","კ","ლ","მ","ნ","ო","პ","ჟ","რ","ს","ტ","უ","ფ",
           "ქ","ღ","ყ","შ","ჩ","ც","ძ","წ","ჭ","ხ","ჯ","ჰ","ჱ","ჲ","ჳ",
           "ჴ","ჵ","ჶ","ჷ","ჸ","ჹ","ჺ","ჽ","ჾ","ჿ","U+1E01","U+1E03",
           "U+1E05","U+1E07","U+1E09","U+1E0B","U+1E0D","U+1E0F",
           "U+1E11","U+1E13","U+1E15","U+1E17","U+1E19","U+1E1B",
           "U+1E1D","U+1E1F","U+1E21","U+1E23","U+1E25","U+1E27",
           "U+1E29","U+1E2B","U+1E2D","U+1E2F","U+1E31","U+1E33",
           "U+1E35","U+1E37","U+1E39","U+1E3B","U+1E3D","U+1E3F",
           "U+1E41","U+1E43","U+1E45","U+1E47","U+1E49","U+1E4B",
           "U+1E4D","U+1E4F","U+1E51","U+1E53","U+1E55","U+1E57",
           "U+1E59","U+1E5B","U+1E5D","U+1E5F","U+1E61","U+1E63",
           "U+1E65","U+1E67","U+1E69","U+1E6B","U+1E6D","U+1E6F",
           "U+1E71","U+1E73","U+1E75","U+1E77","U+1E79","U+1E7B",
           "U+1E7D","U+1E7F","ẁ","ẃ","ẅ","ẇ","ẉ","ẋ","ẍ","ẏ","ẑ","ẓ",
           "ẕ","ß","ạ","ả","ấ","ầ","ẩ","ẫ","ậ","ắ","ằ","ẳ","ẵ","ặ","ẹ",
           "ẻ","ẽ","ế","ề","ể","ễ","ệ","ỉ","ị","ọ","ỏ","ố","ồ","ổ","ỗ",
           "ộ","ớ","ờ","ở","ỡ","ợ","ụ","ủ","ứ","ừ","ử","ữ","ự","ỳ","ỵ",
           "ỷ","ỹ","ỻ","ỽ","ỿ","U+1F00","U+1F01","U+1F02","U+1F03",
           "U+1F04","U+1F05","U+1F06","U+1F07","U+1F10","U+1F11",
           "U+1F12","U+1F13","U+1F14","U+1F15","U+1F20","U+1F21",
           "U+1F22","U+1F23","U+1F24","U+1F25","U+1F26","U+1F27",
           "U+1F30","U+1F31","U+1F32","U+1F33","U+1F34","U+1F35",
           "U+1F36","U+1F37","U+1F40","U+1F41","U+1F42","U+1F43",
           "U+1F44","U+1F45","U+1F51","U+1F53","U+1F55","U+1F57",
           "U+1F60","U+1F61","U+1F62","U+1F63","U+1F64","U+1F65",
           "U+1F66","U+1F67","ᾀ","ᾁ","ᾂ","ᾃ","ᾄ","ᾅ","ᾆ","ᾇ","ᾐ","ᾑ",
           "ᾒ","ᾓ","ᾔ","ᾕ","ᾖ","ᾗ","ᾠ","ᾡ","ᾢ","ᾣ","ᾤ","ᾥ","ᾦ","ᾧ","ᾰ",
           "ᾱ","U+1F70","U+1F71","ᾳ","U+1F72","U+1F73","U+1F74",
           "U+1F75","ῃ","ῐ","ῑ","U+1F76","U+1F77","ῠ","ῡ","U+1F7A",
           "U+1F7B","ῥ","U+1F78","U+1F79","U+1F7C","U+1F7D","ῳ","ω",
           "k","å","U+214E","U+2170","U+2171","U+2172","U+2173",
           "U+2174","U+2175","U+2176","U+2177","U+2178","U+2179",
           "U+217A","U+217B","U+217C","U+217D","U+217E","U+217F","ↄ",
           "ⓐ","ⓑ","ⓒ","ⓓ","ⓔ","ⓕ","ⓖ","ⓗ","ⓘ","ⓙ","ⓚ","ⓛ","ⓜ","ⓝ","ⓞ",
           "ⓟ","ⓠ","ⓡ","ⓢ","ⓣ","ⓤ","ⓥ","ⓦ","ⓧ","ⓨ","ⓩ","U+2C30",
           "U+2C31","U+2C32","U+2C33","U+2C34","U+2C35","U+2C36",
           "U+2C37","U+2C38","U+2C39","U+2C3A","U+2C3B","U+2C3C",
           "U+2C3D","U+2C3E","U+2C3F","U+2C40","U+2C41","U+2C42",
           "U+2C43","U+2C44","U+2C45","U+2C46","U+2C47","U+2C48",
           "U+2C49","U+2C4A","U+2C4B","U+2C4C","U+2C4D","U+2C4E",
           "U+2C4F","U+2C50","U+2C51","U+2C52","U+2C53","U+2C54",
           "U+2C55","U+2C56","U+2C57","U+2C58","U+2C59","U+2C5A",
           "U+2C5B","U+2C5C","U+2C5D","U+2C5E","U+2C5F","U+2C61",
           "U+026B","U+1D7D","U+027D","U+2C68","U+2C6A","U+2C6C",
           "U+0251","U+0271","U+0250","U+0252","U+2C73","U+2C76",
           "U+023F","U+0240","ⲁ","ⲃ","ⲅ","ⲇ","ⲉ","ⲋ","ⲍ","ⲏ","ⲑ","ⲓ",
           "ⲕ","ⲗ","ⲙ","ⲛ","ⲝ","ⲟ","ⲡ","ⲣ","ⲥ","ⲧ","ⲩ","ⲫ","ⲭ","ⲯ","ⲱ",
           "ⲳ","ⲵ","ⲷ","ⲹ","ⲻ","ⲽ","ⲿ","ⳁ","ⳃ","ⳅ","ⳇ","ⳉ","ⳋ","ⳍ","ⳏ",
           "ⳑ","ⳓ","ⳕ","ⳗ","ⳙ","ⳛ","ⳝ","ⳟ","ⳡ","ⳣ","ⳬ","ⳮ","ⳳ",
           "U+A641","U+A643","U+A645","U+A647","U+A649","U+A64B",
           "U+A64D","U+A64F","U+A651","U+A653","U+A655","U+A657",
           "U+A659","U+A65B","U+A65D","U+A65F","U+A661","U+A663",
           "U+A665","U+A667","U+A669","U+A66B","U+A66D","ꚁ","ꚃ","ꚅ",
           "ꚇ","ꚉ","ꚋ","ꚍ","ꚏ","ꚑ","ꚓ","ꚕ","ꚗ","ꚙ","ꚛ","U+A723",
           "U+A725","U+A727","U+A729","U+A72B","U+A72D","U+A72F",
           "U+A733","U+A735","U+A737","U+A739","U+A73B","U+A73D",
           "U+A73F","U+A741","U+A743","U+A745","U+A747","U+A749",
           "U+A74B","U+A74D","U+A74F","U+A751","U+A753","U+A755",
           "U+A757","U+A759","U+A75B","U+A75D","U+A75F","U+A761",
           "U+A763","U+A765","U+A767","U+A769","U+A76B","U+A76D",
           "U+A76F","U+A77A","U+A77C","U+1D79","U+A77F","ꞁ","ꞃ","ꞅ",
           "ꞇ","ꞌ","U+0265","ꞑ","ꞓ","ꞗ","ꞙ","ꞛ","ꞝ","ꞟ","ꞡ","ꞣ","ꞥ",
           "ꞧ","ꞩ","U+0266","U+025C","U+0261","U+026C","U+026A","ʞ",
           "ʇ","ʝ","U+AB53","ꞵ","ꞷ","ꞹ","ꞻ","ꞽ","ꞿ","ꟁ","ꟃ","ꞔ","ʂ",
           "ᶎ","ꟈ","ꟊ","ꟑ","ꟗ","ꟙ","ꟶ","U+FF41","U+FF42","U+FF43",
           "U+FF44","U+FF45","U+FF46","U+FF47","U+FF48","U+FF49",
           "U+FF4A","U+FF4B","U+FF4C","U+FF4D","U+FF4E","U+FF4F",
           "U+FF50","U+FF51","U+FF52","U+FF53","U+FF54","U+FF55",
           "U+FF56","U+FF57","U+FF58","U+FF59","U+FF5A","U+10428",
           "U+10429","U+1042A","U+1042B","U+1042C","U+1042D","U+1042E",
           "U+1042F","U+10430","U+10431","U+10432","U+10433","U+10434",
           "U+10435","U+10436","U+10437","U+10438","U+10439","U+1043A",
           "U+1043B","U+1043C","U+1043D","U+1043E","U+1043F","U+10440",
           "U+10441","U+10442","U+10443","U+10444","U+10445","U+10446",
           "U+10447","U+10448","U+10449","U+1044A","U+1044B","U+1044C",
           "U+1044D","U+1044E","U+1044F","U+104D8","U+104D9","U+104DA",
           "U+104DB","U+104DC","U+104DD","U+104DE","U+104DF","U+104E0",
           "U+104E1","U+104E2","U+104E3","U+104E4","U+104E5","U+104E6",
           "U+104E7","U+104E8","U+104E9","U+104EA","U+104EB","U+104EC",
           "U+104ED","U+104EE","U+104EF","U+104F0","U+104F1","U+104F2",
           "U+104F3","U+104F4","U+104F5","U+104F6","U+104F7","U+104F8",
           "U+104F9","U+104FA","U+104FB","U+10597","U+10598","U+10599",
           "U+1059A","U+1059B","U+1059C","U+1059D","U+1059E","U+1059F",
           "U+105A0","U+105A1","U+105A3","U+105A4","U+105A5","U+105A6",
           "U+105A7","U+105A8","U+105A9","U+105AA","U+105AB","U+105AC",
           "U+105AD","U+105AE","U+105AF","U+105B0","U+105B1","U+105B3",
           "U+105B4","U+105B5","U+105B6","U+105B7","U+105B8","U+105B9",
           "U+105BB","U+105BC","U+10CC0","U+10CC1","U+10CC2","U+10CC3",
           "U+10CC4","U+10CC5","U+10CC6","U+10CC7","U+10CC8","U+10CC9",
           "U+10CCA","U+10CCB","U+10CCC","U+10CCD","U+10CCE","U+10CCF",
           "U+10CD0","U+10CD1","U+10CD2","U+10CD3","U+10CD4","U+10CD5",
           "U+10CD6","U+10CD7","U+10CD8","U+10CD9","U+10CDA","U+10CDB",
           "U+10CDC","U+10CDD","U+10CDE","U+10CDF","U+10CE0","U+10CE1",
           "U+10CE2","U+10CE3","U+10CE4","U+10CE5","U+10CE6","U+10CE7",
           "U+10CE8","U+10CE9","U+10CEA","U+10CEB","U+10CEC","U+10CED",
           "U+10CEE","U+10CEF","U+10CF0","U+10CF1","U+10CF2","U+118C0",
           "U+118C1","U+118C2","U+118C3","U+118C4","U+118C5","U+118C6",
           "U+118C7","U+118C8","U+118C9","U+118CA","U+118CB","U+118CC",
           "U+118CD","U+118CE","U+118CF","U+118D0","U+118D1","U+118D2",
           "U+118D3","U+118D4","U+118D5","U+118D6","U+118D7","U+118D8",
           "U+118D9","U+118DA","U+118DB","U+118DC","U+118DD","U+118DE",
           "U+118DF","U+16E60","U+16E61","U+16E62","U+16E63","U+16E64",
           "U+16E65","U+16E66","U+16E67","U+16E68","U+16E69","U+16E6A",
           "U+16E6B","U+16E6C","U+16E6D","U+16E6E","U+16E6F","U+16E70",
           "U+16E71","U+16E72","U+16E73","U+16E74","U+16E75","U+16E76",
           "U+16E77","U+16E78","U+16E79","U+16E7A","U+16E7B","U+16E7C",
           "U+16E7D","U+16E7E","U+16E7F","U+1E922","U+1E923","U+1E924",
           "U+1E925","U+1E926","U+1E927","U+1E928","U+1E929","U+1E92A",
           "U+1E92B","U+1E92C","U+1E92D","U+1E92E","U+1E92F","U+1E930",
           "U+1E931","U+1E932","U+1E933","U+1E934","U+1E935","U+1E936",
           "U+1E937","U+1E938","U+1E939","U+1E93A","U+1E93B","U+1E93C",
           "U+1E93D","U+1E93E","U+1E93F","U+1E940","U+1E941","U+1E942",
           "U+1E943">>

unicodeToLower ==
    [c \in {Upper[i] : i \in DOMAIN Upper} |->
        Lower[CHOOSE i \in DOMAIN Upper : Upper[i] = c]]

\* a rune without a lower-case form of its own (a lower-case letter, a
\* digit, a sign, a letter of a script without case) is returned as it is
ToLowerChar(c) ==
    IF c \in DOMAIN unicodeToLower THEN unicodeToLower[c] ELSE c

\* strings.ToLower: every letter mapped by unicode.ToLower
ToLower(s) == [i \in 1..Len(s) |-> ToLowerChar(s[i])]

\* strings.Split(s, sep) for a one-character sep: always at least one part
RECURSIVE Split(_, _)
Split(s, sep) ==
    IF \A i \in 1..Len(s) : s[i] # sep
    THEN <<s>>
    ELSE LET i == CHOOSE j \in 1..Len(s) :
                      s[j] = sep /\ \A k \in 1..(j - 1) : s[k] # sep
         IN  <<SubSeq(s, 1, i - 1)>> \o Split(SubSeq(s, i + 1, Len(s)), sep)

Slash == "/"
Dot == "."
Dash == "-"
DotJson == <<".","j","s","o","n">>

-----------------------------------------------------------------------------
(* generateFilename, lines 141-174. *)

\* line 24: "{{ .ResourceKind }}{{ .KindSuffix }}.json"; text/template
\* writes the two fields unescaped, followed by the literal text
generatedCrdsPattern == <<"ResourceKind", "KindSuffix", ".json">>

Execute(tpl, tplData) ==
    LET part(f) == IF f = "ResourceKind" THEN tplData.ResourceKind
                   ELSE IF f = "KindSuffix" THEN tplData.KindSuffix
                   ELSE DotJson
    IN  part(tpl[1]) \o part(tpl[2]) \o part(tpl[3])

\* the claimed naming: version first, then the whole group
generateFilenameVersionFirst(tpl, kind, apiVersion) ==
    LET groupParts == Split(apiVersion, Slash)
        last == groupParts[Len(groupParts)]
        versionParts == Split(last, Dot)
        kindSuffix ==
            IF Len(groupParts) > 1
            THEN <<Dash>> \o ToLower(versionParts[1]) \o <<Dash>>
                     \o ToLower(groupParts[1])
            ELSE <<Dash>> \o ToLower(versionParts[1])
    IN  Execute(tpl, [ResourceKind |-> ToLower(kind),
                      KindSuffix |-> kindSuffix])

\* The template is the constant of line 24, so Parse and Execute do not
\* fail and the error result is always nil: the result is the string.
generateFilename(tpl, kind, apiVersion) ==
    LET groupParts == Split(apiVersion, Slash)
        versionParts == Split(groupParts[1], Dot)
        kindSuffix ==
            IF Len(groupParts) > 1
            THEN <<Dash>> \o ToLower(versionParts[1]) \o <<Dash>>
                     \o ToLower(groupParts[2])
            ELSE <<Dash>> \o ToLower(versionParts[1])
    IN  Execute(tpl, [ResourceKind |-> ToLower(kind),
                      KindSuffix |-> kindSuffix])

-----------------------------------------------------------------------------
(* Decoded objects.  Schema (v1) and Validation (v1beta1) are pointers to  *)
(* a CustomResourceValidation, whose OpenAPIV3Schema is a pointer too.     *)

Nil == "nil"
NilValidation == [isNil |-> TRUE, OpenAPIV3Schema |-> Nil]
EmptyValidation == [isNil |-> FALSE, OpenAPIV3Schema |-> Nil]
Validation(props) == [isNil |-> FALSE, OpenAPIV3Schema |-> props]
Validations(props) ==
    {NilValidation, EmptyValidation} \cup {Validation(p) : p \in props}

Version(name, schema) == [Name |-> name, Schema |-> schema]

StableCRD(kind, group, versions) ==
    [shape |-> "v1", Kind |-> kind, Group |-> group, Versions |-> versions]
LegacyCRD(kind, group, version, validation) ==
    [shape |-> "v1beta1", Kind |-> kind, Group |-> group,
     Version |-> version, Validation |-> validation]
\* the other kind the scheme registers: CustomResourceDefinitionList
ListObj == [shape |-> "list"]
NoObj == [shape |-> "none"]

RECURSIVE SeqsUpTo(_, _)
SeqsUpTo(S, n) ==
    IF n = 0 THEN {<<>>}
    ELSE LET shorter == SeqsUpTo(S, n - 1)
         IN  shorter \cup {Append(s, x) : s \in shorter, x \in S}

StableCRDs(kinds, groups, names, props, n) ==
    {StableCRD(k, g, vs) :
        k \in kinds, g \in groups,
        vs \in SeqsUpTo({Version(nm, sc) :
                            nm \in names, sc \in Validations(props)}, n)}
LegacyCRDs(kinds, groups, names, props) ==
    {LegacyCRD(k, g, nm, sc) :
        k \in kinds, g \in groups, nm \in names, sc \in Validations(props)}

-----------------------------------------------------------------------------
(* generateSchemaFromCRD, lines 92-137. *)

EmptyMap == <<>>
Put(m, k, v) == [x \in DOMAIN m \cup {k} |-> IF x = k THEN v ELSE m[x]]

\* fmt.Sprintf("%v/%v", group, version)
Sprintf(group, version) == group \o <<Slash>> \o version

\* json.MarshalIndent of a schema object.  An object that came out of the
\* decoder marshals without error, so lines 127-128 and 133-135 add
\* nothing to msg.
MarshalIndent(props) == <<"{", props, "}">>

NoErr == "nil"
ErrNoValidation == "No validation specified"
ErrUnknownCRD == "Unknown CRD version"

\* the filename computed once, from the first version, outside the loop
RECURSIVE RangeVersionsOneName(_, _, _)
RangeVersionsOneName(crd, i, acc) ==
    IF i > Len(crd.Versions) THEN [panic |-> FALSE, schemas |-> acc]
    ELSE LET version == crd.Versions[i]
             name == generateFilename(generatedCrdsPattern, crd.Kind,
                                      Sprintf(crd.Group, crd.Versions[1].Name))
         IN  IF version.Schema.isNil
             THEN RangeVersionsOneName(crd, i + 1, acc)
             ELSE IF version.Schema.OpenAPIV3Schema = Nil
             THEN [panic |-> TRUE, schemas |-> acc]
             ELSE RangeVersionsOneName(crd, i + 1,
                      Put(acc, name, version.Schema.OpenAPIV3Schema))

\* lines 97-105 from version i on: the map built, or the nil dereference
\* of line 103
RECURSIVE RangeVersions(_, _, _)
RangeVersions(crd, i, acc) ==
    IF i > Len(crd.Versions) THEN [panic |-> FALSE, schemas |-> acc]
    ELSE LET version == crd.Versions[i]
             name == generateFilename(generatedCrdsPattern, crd.Kind,
                                      Sprintf(crd.Group, version.Name))
         IN  IF version.Schema.isNil
             THEN RangeVersions(crd, i + 1, acc)
             ELSE IF version.Schema.OpenAPIV3Schema = Nil
             THEN [panic |-> TRUE, schemas |-> acc]
             ELSE RangeVersions(crd, i + 1,
                      Put(acc, name, version.Schema.OpenAPIV3Schema))

\* lines 106-114
LegacySchemas(crd) ==
    LET name == generateFilename(generatedCrdsPattern, crd.Kind,
                                 Sprintf(crd.Group, crd.Version))
    IN  IF crd.Validation.isNil
        THEN [panic |-> FALSE, schemas |-> EmptyMap]
        ELSE IF crd.Validation.OpenAPIV3Schema = Nil
        THEN [panic |-> TRUE, schemas |-> EmptyMap]
        ELSE [panic |-> FALSE,
              schemas |-> Put(EmptyMap, name, crd.Validation.OpenAPIV3Schema)]

Extracted(outcome, e, res) == [outcome |-> outcome, err |-> e, res |-> res]

\* outcome "ok": res is returned with a nil error; "error": err is
\* returned with a nil map; "panic": the runtime aborts the process
generateSchemaFromCRD(obj) ==
    IF obj.shape \notin {"v1", "v1beta1"}
    THEN Extracted("error", ErrUnknownCRD, EmptyMap)
    ELSE LET got == IF obj.shape = "v1"
                    THEN RangeVersions(obj, 1, EmptyMap)
                    ELSE LegacySchemas(obj)
         IN  IF got.panic THEN Extracted("panic", NoErr, EmptyMap)
             ELSE IF DOMAIN got.schemas = {}
             THEN Extracted("error", ErrNoValidation, EmptyMap)
             ELSE Extracted("ok", NoErr,
                      [name \in DOMAIN got.schemas |->
                          MarshalIndent(got.schemas[name])])

-----------------------------------------------------------------------------
(* Paths and the filesystem. *)

\* filepath.IsAbs
IsAbs(p) == Len(p) > 0 /\ p[1] = Slash

\* filepath.Clean of "<base>/<rest>": the segments of rest applied to the
\* segments of base; "" and "." are dropped, ".." removes a segment and
\* stays at the root
RECURSIVE CleanParts(_, _)
CleanParts(base, parts) ==
    IF parts = <<>> THEN base
    ELSE LET h == Head(parts)
             next == IF h = <<>> \/ h = <<Dot>> THEN base
                     ELSE IF h = <<Dot, Dot>>
                     THEN (IF base = <<>> THEN base
                           ELSE SubSeq(base, 1, Len(base) - 1))
                     ELSE Append(base, h)
         IN  CleanParts(next, Tail(parts))

\* filepath.Join(dir, name), dir cleaned and absolute
Join(dir, name) == CleanParts(dir, Split(name, Slash))

\* filepath.Dir, and the directory part of path.Split, of a cleaned path
Dir(p) == IF p = <<>> THEN p ELSE SubSeq(p, 1, Len(p) - 1)

IsPrefix(d, p) == Len(d) <= Len(p) /\ SubSeq(p, 1, Len(d)) = d

DirEntry == [kind |-> "dir", data |-> <<>>]
FileEntry(b) == [kind |-> "file", data |-> b]

Exists(fsys, p) == p \in DOMAIN fsys
IsDir(fsys, p) == Exists(fsys, p) /\ fsys[p].kind = "dir"
HasChild(fsys, p) == \E q \in DOMAIN fsys : q # p /\ IsPrefix(p, q)
Without(fsys, p) == [q \in DOMAIN fsys \ {p} |-> fsys[q]]

\* os.IsNotExist of os.Stat(p)'s error: nothing at p, and no file where
\* a directory of the path should be (that is ENOTDIR, not ENOENT)
StatIsNotExist(fsys, p) ==
    /\ ~Exists(fsys, p)
    /\ \A i \in 0..Len(p) :
           LET a == SubSeq(p, 1, i)
           IN  Exists(fsys, a) => IsDir(fsys, a)

IOResult(fsys, e) == [fs |-> fsys, err |-> e]

ErrMkdir == "mkdir failed"
ErrRemove == "failed to remove file"
ErrWrite == "failed to write file"

\* os.MkdirAll(d): nil when d is a directory; an error when d or one of
\* its ancestors is a file, or when the environment refuses (fault);
\* otherwise d and its missing ancestors are created
MkdirAll(fsys, d, fault) ==
    IF Exists(fsys, d)
    THEN IOResult(fsys, IF IsDir(fsys, d) THEN NoErr ELSE ErrMkdir)
    ELSE IF fault = "mkdir"
            \/ \E i \in 0..Len(d) :
                   LET a == SubSeq(d, 1, i)
                   IN  Exists(fsys, a) /\ ~IsDir(fsys, a)
    THEN IOResult(fsys, ErrMkdir)
    ELSE IOResult([q \in DOMAIN fsys \cup {SubSeq(d, 1, i) : i \in 0..Len(d)}
                      |-> IF Exists(fsys, q) THEN fsys[q] ELSE DirEntry],
                  NoErr)

\* os.Remove(p): removes a file or an empty directory; an error when
\* there is nothing at p
Remove(fsys, p, fault) ==
    IF fault = "remove" \/ ~Exists(fsys, p)
           \/ (IsDir(fsys, p) /\ HasChild(fsys, p))
    THEN IOResult(fsys, ErrRemove)
    ELSE IOResult(Without(fsys, p), NoErr)

\* ioutil.WriteFile(p, b, 0644): O_WRONLY|O_CREATE|O_TRUNC, then Write.
\* A fault at open leaves the filesystem as it was; a fault at Write
\* leaves a truncated file with part of b.
WriteFile(fsys, p, b, fault) ==
    IF fault = "open" \/ IsDir(fsys, p) \/ ~IsDir(fsys, Dir(p))
    THEN IOResult(fsys, ErrWrite)
    ELSE IF fault = "write"
    THEN IOResult(Put(fsys, p, FileEntry(SubSeq(b, 1, 1))), ErrWrite)
    ELSE IOResult(Put(fsys, p, FileEntry(b)), NoErr)

-----------------------------------------------------------------------------
(* writeFile, lines 176-199. *)

\* the file opened for appending instead of removed and rewritten
writeFileAppend(fsys, b, outfile, fault) ==
    LET old == IF Exists(fsys, outfile) /\ ~IsDir(fsys, outfile)
               THEN fsys[outfile].data ELSE <<>>
    IN  WriteFile(fsys, outfile, old \o b, fault)

writeFile(fsys, b, outfile, fault) ==
    LET removed == IF Exists(fsys, outfile)
                   THEN Remove(fsys, outfile, fault)
                   ELSE IOResult(fsys, NoErr)
        d == Dir(outfile)
        made == IF StatIsNotExist(removed.fs, d)
                THEN MkdirAll(removed.fs, d, fault)
                ELSE IOResult(removed.fs, NoErr)
    IN  IF removed.err # NoErr THEN removed
        ELSE IF made.err # NoErr THEN made
        ELSE WriteFile(made.fs, outfile, b, fault)

-----------------------------------------------------------------------------
(* readCRDFromPath and isURL, lines 201-242. *)

\* The argument, by what url.ParseRequestURI makes of it.
RelPathArg == [text |-> "crd.yaml", parses |-> FALSE, scheme |-> ""]
AbsPathArg == [text |-> "/tmp/crd.yaml", parses |-> TRUE, scheme |-> ""]
URLArg == [text |-> "https://h/crd.yaml", parses |-> TRUE, scheme |-> "https"]
Args == {RelPathArg, AbsPathArg, URLArg}

isURL(str) == str.parses /\ str.scheme # ""

ErrNotFound == "was not found"
ErrReadFile == "failed to read file"
ErrCreateRequest == "failed to create request"
ErrExecuteRequest == "failed to execute request"
ErrStatus == "404 Not Found"
ErrReadBody == "failed to read response body"
ReadErrors == {ErrNotFound, ErrReadFile, ErrCreateRequest,
               ErrExecuteRequest, ErrStatus, ErrReadBody}

\* What the environment holds for the argument.  A path: no file
\* ("notexist"), a file that cannot be read ("unreadable"), or a file
\* ("ok").  A URL: one http.NewRequest rejects ("badrequest"), no answer
\* ("unreachable"), an answer other than 200 ("status404"), a body that
\* breaks off ("badbody"), or a 200 answer ("ok").
PathStates == {"notexist", "unreadable", "ok"}
URLStates == {"badrequest", "unreachable", "status404", "badbody", "ok"}

ReadResult(e, body, http) == [err |-> e, body |-> body, http |-> http]

\* the existence check of lines 203-205 left out
readCRDFromPathNoStat(str, src) ==
    IF ~isURL(str)
    THEN IF src.state # "ok"
         THEN ReadResult(ErrReadFile, src.manifest, FALSE)
         ELSE ReadResult(NoErr, src.manifest, FALSE)
    ELSE IF src.state = "badrequest"
    THEN ReadResult(ErrCreateRequest, src.manifest, FALSE)
    ELSE IF src.state = "unreachable"
    THEN ReadResult(ErrExecuteRequest, src.manifest, TRUE)
    ELSE IF src.state = "status404"
    THEN ReadResult(ErrStatus, src.manifest, TRUE)
    ELSE IF src.state = "badbody"
    THEN ReadResult(ErrReadBody, src.manifest, TRUE)
    ELSE ReadResult(NoErr, src.manifest, TRUE)

\* http: whether http.DefaultClient.Do was called
readCRDFromPath(str, src) ==
    IF ~isURL(str)
    THEN IF src.state = "notexist"
         THEN ReadResult(ErrNotFound, src.manifest, FALSE)
         ELSE IF src.state = "unreadable"
         THEN ReadResult(ErrReadFile, src.manifest, FALSE)
         ELSE ReadResult(NoErr, src.manifest, FALSE)
    ELSE IF src.state = "badrequest"
    THEN ReadResult(ErrCreateRequest, src.manifest, FALSE)
    ELSE IF src.state = "unreachable"
    THEN ReadResult(ErrExecuteRequest, src.manifest, TRUE)
    ELSE IF src.state = "status404"
    THEN ReadResult(ErrStatus, src.manifest, TRUE)
    ELSE IF src.state = "badbody"
    THEN ReadResult(ErrReadBody, src.manifest, TRUE)
    ELSE ReadResult(NoErr, src.manifest, TRUE)

-----------------------------------------------------------------------------
(* decodeCRD, lines 85-90. *)

\* A manifest: whether it is well-formed YAML or JSON, the apiVersion and
\* kind it declares, and the fields of its object.
Manifest(wf, apiVersion, kind, obj) ==
    [wellFormed |-> wf, apiVersion |-> apiVersion, kind |-> kind,
     object |-> obj]
Garbage == Manifest(FALSE, "", "", NoObj)
CRDKind == "CustomResourceDefinition"
ListKind == "CustomResourceDefinitionList"
\* extensionsscheme.AddToScheme registers these for apiextensions.k8s.io
Registered == {<<"v1", CRDKind>>, <<"v1beta1", CRDKind>>,
               <<"v1", ListKind>>, <<"v1beta1", ListKind>>}

ErrDecode == "decode error"

decodeCRD(raw) ==
    IF ~raw.wellFormed \/ <<raw.apiVersion, raw.kind>> \notin Registered
    THEN [err |-> ErrDecode, crd |-> NoObj]
    ELSE IF raw.kind = ListKind
    THEN [err |-> NoErr, crd |-> ListObj]
    ELSE [err |-> NoErr, crd |-> [raw.object EXCEPT !.shape = raw.apiVersion]]

-----------------------------------------------------------------------------
(* The inputs of Generate. *)

KindW == <<"W">>
\* a kind that climbs out of the directory: "../W"
KindUp == <<".", ".", "/", "W">>
GroupG == <<"g", ".", "i", "o">>
V1 == <<"v", "1">>
V2 == <<"v", "2">>
PipeKinds == {KindW, KindUp}
PipeNames == {V1, V2}
PipeProps == {"s1"}

\* The manifests Generate reads name each version once, in any order;
\* lists that repeat a name are drawn for generateSchemaFromCRD alone.
UniqueNames(versions) ==
    \A i, j \in 1..Len(versions) :
        i # j => versions[i].Name # versions[j].Name

PipeManifests ==
    {Garbage, Manifest(TRUE, "v2", CRDKind, NoObj),
     Manifest(TRUE, "v1", "Pod", NoObj),
     Manifest(TRUE, "v1", ListKind, NoObj)}
    \cup {Manifest(TRUE, "v1", CRDKind, c) :
             c \in {d \in StableCRDs(PipeKinds, {GroupG}, PipeNames,
                                     PipeProps, Cardinality(PipeNames)) :
                       UniqueNames(d.Versions)}}
    \cup {Manifest(TRUE, "v1beta1", CRDKind, c) :
             c \in LegacyCRDs(PipeKinds, {GroupG}, {V1}, PipeProps)}

Source(state, manifest) == [state |-> state, manifest |-> manifest]
SourcesFor(str) ==
    {Source(st, Garbage) :
        st \in (IF isURL(str) THEN URLStates ELSE PathStates) \ {"ok"}}
    \cup {Source("ok", m) : m \in PipeManifests}

\* the working directory "/c"; the output directory is "o" or "/c/o"
Cwd == <<<<"c">>>>
OutputDirArgs == {<<"o">>, <<Slash, "c", Slash, "o">>}
\* The answers to filepath.Abs (line 29) and to os.Getwd (line 31): both
\* read the working directory, the second only after the first failed.
\* They stay the same for a run and the runs after it.
Workdir(abs, getwd) == [abs |-> abs, getwd |-> getwd]
Workdirs == {Workdir("ok", "ok"), Workdir("fail", "ok"),
             Workdir("fail", "fail")}
\* an absolute argument asks neither
WorkdirsFor(arg) == IF IsAbs(arg) THEN {Workdir("ok", "ok")} ELSE Workdirs
OutAbs == <<<<"c">>, <<"o">>>>
Target(kind, version) ==
    Join(OutAbs, generateFilename(generatedCrdsPattern, kind,
                                  Sprintf(GroupG, version)))

Old == <<"old">>
BaseFS == (<<>> :> DirEntry) @@ (Cwd :> DirEntry)
OutFS == BaseFS @@ (OutAbs :> DirEntry)
\* the filesystems a run may start on: no output directory; an older
\* output; a target that is a directory with a file in it; a target that
\* is an empty directory; a file where the output directory should be
InitFS ==
    { BaseFS,
      OutFS @@ (Target(KindW, V1) :> FileEntry(Old)),
      OutFS @@ (Target(KindW, V1) :> DirEntry)
            @@ (Append(Target(KindW, V1), <<"x">>) :> FileEntry(Old)),
      OutFS @@ (Target(KindW, V1) :> FileEntry(Old))
            @@ (Target(KindW, V2) :> DirEntry),
      BaseFS @@ (OutAbs :> FileEntry(Old)) }

FaultKinds == {"none", "mkdir", "remove", "open", "write"}

-----------------------------------------------------------------------------
(* Generate, lines 26-64, and GenerateString, lines 66-83. *)

ErrWorkdir == "failed to get workdir for relative outputdir"
ErrWriteFiles == "Failed to write following files"

Line(outfile, e) == [path |-> outfile, err |-> e]
Locals(fsys, fl, m, outfile, e) ==
    [fs |-> fsys, files |-> fl, msg |-> m, outfile |-> outfile, err |-> e]

\* the loop body without its second continue: the path is appended after
\* a failed write too
RangeBodyNoContinue(fsys, fl, m, dir, name, schema, fault) ==
    LET outfile == Join(dir, name)
        made == MkdirAll(fsys, Dir(outfile), fault)
        wrote == writeFile(made.fs, schema, outfile, fault)
    IN  IF made.err # NoErr
        THEN Locals(made.fs, fl, Append(m, Line(outfile, made.err)),
                    outfile, made.err)
        ELSE IF wrote.err # NoErr
        THEN Locals(wrote.fs, Append(fl, outfile),
                    Append(m, Line(outfile, wrote.err)), outfile, wrote.err)
        ELSE Locals(wrote.fs, Append(fl, outfile), m, outfile, NoErr)

\* lines 46-57: one pass of the range loop
RangeBody(fsys, fl, m, dir, name, schema, fault) ==
    LET outfile == Join(dir, name)
        made == MkdirAll(fsys, Dir(outfile), fault)
        wrote == writeFile(made.fs, schema, outfile, fault)
    IN  IF made.err # NoErr
        THEN Locals(made.fs, fl, Append(m, Line(outfile, made.err)),
                    outfile, made.err)
        ELSE IF wrote.err # NoErr
        THEN Locals(wrote.fs, fl, Append(m, Line(outfile, wrote.err)),
                    outfile, wrote.err)
        ELSE Locals(wrote.fs, Append(fl, outfile), m, outfile, NoErr)

Changed(before, after) ==
    {q \in DOMAIN before \cup DOMAIN after :
        \/ Exists(before, q) # Exists(after, q)
        \/ Exists(before, q) /\ Exists(after, q) /\ before[q] # after[q]}

Return(e) == pc' = "done" /\ err' = e

\* the output directory created as soon as it is known
ResolveOutputDirAndMake ==
    /\ pc = "start"
    /\ outputDir' = Join(IF IsAbs(outputDirArg) THEN <<>> ELSE Cwd,
                         outputDirArg)
    /\ fs' = MkdirAll(fs, outputDir', "none").fs
    /\ touched' = touched \cup Changed(fs, fs')
    /\ pc' = "read"
    /\ UNCHANGED <<prev, fsStart, specPath, outputDirArg, workdir, source,
                   crdObj, schemas, pending, files, msg, err, faults, failed,
                   httpIssued, decoderRan, extractorRan, resourceKind,
                   resourceAPIVersion, filename>>

\* lines 28-37: the directory made absolute.  filepath.Abs (line 29)
\* fails when its os.Getwd fails, and then returns "", which line 29
\* stores in outputDir; the os.Getwd of line 31 is a second call, which
\* the environment answers on its own: when it succeeds, line 35 joins
\* the working directory and the emptied outputDir.
ResolveOutputDir ==
    /\ pc = "start"
    /\ IF IsAbs(outputDirArg)
       THEN /\ outputDir' = Join(<<>>, outputDirArg)
            /\ pc' = "read"
            /\ err' = err
       ELSE IF workdir.abs = "ok"
       THEN /\ outputDir' = Join(Cwd, outputDirArg)
            /\ pc' = "read"
            /\ err' = err
       ELSE IF workdir.getwd = "ok"
       THEN /\ outputDir' = Join(Cwd, <<>>)
            /\ pc' = "read"
            /\ err' = err
       ELSE /\ outputDir' = outputDir
            /\ Return(ErrWorkdir)
    /\ UNCHANGED <<prev, fsStart, specPath, outputDirArg, workdir, source,
                   crdObj, schemas, pending, files, msg, fs, faults, failed,
                   touched, httpIssued, decoderRan, extractorRan,
                   resourceKind, resourceAPIVersion, filename>>

\* lines 68-71 and 39-42
Read ==
    /\ pc = "read"
    /\ LET r == readCRDFromPath(specPath, source)
       IN  /\ httpIssued' = r.http
           /\ IF r.err # NoErr THEN Return(r.err)
              ELSE pc' = "decode" /\ err' = err
    /\ UNCHANGED <<prev, fsStart, specPath, outputDirArg, workdir, source, outputDir, crdObj,
                   schemas, pending, files, msg, fs, faults, failed, touched,
                   decoderRan, extractorRan, resourceKind,
                   resourceAPIVersion, filename>>

\* lines 73-76 and 39-42
Decode ==
    /\ pc = "decode"
    /\ LET r == decodeCRD(source.manifest)
       IN  /\ decoderRan' = TRUE
           /\ crdObj' = r.crd
           /\ IF r.err # NoErr THEN Return(r.err)
              ELSE pc' = "extract" /\ err' = err
    /\ UNCHANGED <<prev, fsStart, specPath, outputDirArg, workdir, source, outputDir, schemas,
                   pending, files, msg, fs, faults, failed, touched,
                   httpIssued, extractorRan, resourceKind,
                   resourceAPIVersion, filename>>

\* lines 78-82 and 39-42; a panic ends the process
Extract ==
    /\ pc = "extract"
    /\ LET r == generateSchemaFromCRD(crdObj)
       IN  /\ extractorRan' = TRUE
           /\ schemas' = r.res
           /\ pending' = DOMAIN r.res
           /\ IF r.outcome = "panic" THEN pc' = "panicked" /\ err' = err
              ELSE IF r.outcome = "error" THEN Return(r.err)
              ELSE pc' = "write" /\ err' = err
    /\ UNCHANGED <<prev, fsStart, specPath, outputDirArg, workdir, source, outputDir, crdObj, files,
                   msg, fs, faults, failed, touched, httpIssued, decoderRan,
                   resourceKind, resourceAPIVersion, filename>>

\* lines 45-58: the range loop takes the keys in any order; the
\* environment may make one I/O call of the pass fail
WriteNext ==
    /\ pc = "write"
    /\ \E name \in pending, fault \in FaultKinds :
          LET plain == RangeBody(fs, files, msg, outputDir, name,
                                 schemas[name], "none")
              r == RangeBody(fs, files, msg, outputDir, name,
                             schemas[name], fault)
          IN  /\ fault # "none" => faults < MaxFaults /\ r # plain
              /\ faults' = IF fault = "none" THEN faults ELSE faults + 1
              /\ fs' = r.fs
              /\ files' = r.files
              /\ msg' = r.msg
              /\ failed' = IF r.err # NoErr THEN failed \cup {r.outfile}
                           ELSE failed
              /\ touched' = touched \cup Changed(fs, r.fs)
                                \cup (IF r.err = NoErr THEN {r.outfile}
                                      ELSE {})
              /\ pending' = pending \ {name}
    /\ UNCHANGED <<pc, prev, fsStart, specPath, outputDirArg, workdir, source, outputDir, crdObj,
                   schemas, err, httpIssued, decoderRan, extractorRan,
                   resourceKind, resourceAPIVersion, filename>>

\* lines 60-63
Finish ==
    /\ pc = "write"
    /\ pending = {}
    /\ Return(IF msg # <<>> THEN ErrWriteFiles ELSE NoErr)
    /\ UNCHANGED <<prev, fsStart, specPath, outputDirArg, workdir, source, outputDir, crdObj,
                   schemas, pending, files, msg, fs, faults, failed, touched,
                   httpIssued, decoderRan, extractorRan, resourceKind,
                   resourceAPIVersion, filename>>

\* the tool run again with the same arguments
Rerun ==
    /\ pc = "done"
    /\ pc' = "start"
    /\ prev' = IF err = NoErr THEN "ok" ELSE "failed"
    /\ fsStart' = fs
    /\ outputDir' = <<>>
    /\ crdObj' = NoObj
    /\ schemas' = EmptyMap
    /\ pending' = {}
    /\ files' = <<>>
    /\ msg' = <<>>
    /\ err' = NoErr
    /\ failed' = {}
    /\ touched' = {}
    /\ httpIssued' = FALSE
    /\ decoderRan' = FALSE
    /\ extractorRan' = FALSE
    /\ UNCHANGED <<specPath, outputDirArg, workdir, source, fs, faults, resourceKind,
                   resourceAPIVersion, filename>>

Init ==
    /\ pc = "start"
    /\ prev = "none"
    /\ specPath \in Args
    /\ outputDirArg \in OutputDirArgs
    /\ workdir \in WorkdirsFor(outputDirArg)
    /\ source \in SourcesFor(specPath)
    /\ fs \in InitFS
    /\ fsStart = fs
    /\ outputDir = <<>>
    /\ crdObj = NoObj
    /\ schemas = EmptyMap
    /\ pending = {}
    /\ files = <<>>
    /\ msg = <<>>
    /\ err = NoErr
    /\ faults = 0
    /\ failed = {}
    /\ touched = {}
    /\ httpIssued = FALSE
    /\ decoderRan = FALSE
    /\ extractorRan = FALSE
    /\ resourceKind = <<>>
    /\ resourceAPIVersion = <<>>
    /\ filename = <<>>

Next ==
    \/ ResolveOutputDir
    \/ Read
    \/ Decode
    \/ Extract
    \/ WriteNext
    \/ Finish
    \/ Rerun

Spec == Init /\ [][Next]_vars

-----------------------------------------------------------------------------
(* generateFilename on its own: the inputs drawn, then the call. *)

Widget == <<"W", "i", "d", "g", "e", "t">>
ExampleGV == <<"e","x","a","m","p","l","e",".","c","o","m","/",
               "v","1","b","e","t","a","1">>
Ecole == <<"É", "c", "o", "l", "e">>
FnKinds == {<<>>, <<"A">>, <<"A", "b">>, Widget, Ecole}
FnAPIVersions == SeqsUpTo({"A", "b", Dot, Slash}, MaxLen) \cup {ExampleGV, V1}

Idle ==
    /\ prev = "none"
    /\ specPath = RelPathArg
    /\ outputDirArg = <<"o">>
    /\ workdir = Workdir("ok", "ok")
    /\ source = Source("ok", Garbage)
    /\ fs = BaseFS
    /\ fsStart = BaseFS
    /\ outputDir = <<>>
    /\ schemas = EmptyMap
    /\ pending = {}
    /\ files = <<>>
    /\ msg = <<>>
    /\ err = NoErr
    /\ faults = 0
    /\ failed = {}
    /\ touched = {}
    /\ httpIssued = FALSE
    /\ decoderRan = FALSE
    /\ extractorRan = FALSE

InitFilename ==
    /\ pc = "filename"
    /\ resourceKind \in FnKinds
    /\ resourceAPIVersion \in FnAPIVersions
    /\ filename = <<>>
    /\ crdObj = NoObj
    /\ Idle

ApplyFilename ==
    /\ pc = "filename"
    /\ pc' = "named"
    /\ filename' = generateFilename(generatedCrdsPattern, resourceKind,
                                    resourceAPIVersion)
    /\ UNCHANGED <<prev, fsStart, specPath, outputDirArg, workdir, source, outputDir, crdObj,
                   schemas, pending, files, msg, err, fs, faults, failed,
                   touched, httpIssued, decoderRan, extractorRan,
                   resourceKind, resourceAPIVersion>>

SpecFilename == InitFilename /\ [][ApplyFilename]_vars

-----------------------------------------------------------------------------
(* generateSchemaFromCRD on its own: a decoded object drawn, then the call. *)

GroupUpper == <<"G">>
GroupSlash == <<"a", Slash, "b">>
V1Upper == <<"V", "1">>
V1Slash == <<"v", "1", Slash, "x">>
ExtractGroups == {GroupG, GroupUpper, GroupSlash}
ExtractNames == {V1, V2, V1Upper, V1Slash}
ExtractProps == {"s1", "s2"}
ExtractCRDs ==
    StableCRDs({KindW}, ExtractGroups, ExtractNames, ExtractProps, MaxVersions)
    \cup LegacyCRDs({KindW}, ExtractGroups, ExtractNames, ExtractProps)
    \cup {ListObj}

InitExtract ==
    /\ pc = "extract"
    /\ crdObj \in ExtractCRDs
    /\ resourceKind = <<>>
    /\ resourceAPIVersion = <<>>
    /\ filename = <<>>
    /\ Idle

SpecExtract == InitExtract /\ [][Extract]_vars

-----------------------------------------------------------------------------
(* Properties. *)

Contains(s, c) == \E i \in 1..Len(s) : s[i] = c
Count(s, c) == Cardinality({i \in 1..Len(s) : s[i] = c})
\* the text of s before its first c (all of s when it has none)
Before(s, c) ==
    IF Contains(s, c)
    THEN SubSeq(s, 1, (CHOOSE i \in 1..Len(s) :
                          s[i] = c /\ ~Contains(SubSeq(s, 1, i - 1), c)) - 1)
    ELSE s
\* the text of s after its first c
After(s, c) == SubSeq(s, Len(Before(s, c)) + 2, Len(s))

\* <kind>-<first dot-segment of the version>[-<group>].json, all lowercased
ClaimedName(kind, gv) ==
    IF Contains(gv, Slash)
    THEN ToLower(kind) \o <<Dash>> \o ToLower(Before(After(gv, Slash), Dot))
             \o <<Dash>> \o ToLower(Before(gv, Slash)) \o DotJson
    ELSE ToLower(kind) \o <<Dash>> \o ToLower(Before(gv, Dot)) \o DotJson

\* <kind>-<first dot-segment of the text before the first "/">
\* [-<text between the first and the second "/">].json, all lowercased
ActualName(kind, gv) ==
    IF Contains(gv, Slash)
    THEN ToLower(kind) \o <<Dash>> \o ToLower(Before(Before(gv, Slash), Dot))
             \o <<Dash>> \o ToLower(Before(After(gv, Slash), Slash))
             \o DotJson
    ELSE ToLower(kind) \o <<Dash>> \o ToLower(Before(gv, Dot)) \o DotJson

WidgetV1Json == <<"w","i","d","g","e","t","-","v","1",".","j","s","o","n">>
WidgetExampleV1beta1Json ==
    <<"w","i","d","g","e","t","-","e","x","a","m","p","l","e","-",
      "v","1","b","e","t","a","1",".","j","s","o","n">>
WidgetV1beta1ExampleComJson ==
    <<"w","i","d","g","e","t","-","v","1","b","e","t","a","1","-",
      "e","x","a","m","p","l","e",".","c","o","m",".","j","s","o","n">>

\* C1 as claimed: generateFilename(K, "G/V") is
\* lowercase(K)-lowercase(first dot-segment of V)-lowercase(G).json, and
\* without a "/" lowercase(K)-lowercase(first dot-segment of V).json;
\* Widget with example.com/v1beta1 gives widget-v1beta1-example.com.json
\* and Widget with v1 gives widget-v1.json.
C1_VersionThenGroup ==
    (pc = "named" /\ Count(resourceAPIVersion, Slash) <= 1) =>
        /\ filename = ClaimedName(resourceKind, resourceAPIVersion)
        /\ (resourceKind = Widget /\ resourceAPIVersion = ExampleGV)
               => filename = WidgetV1beta1ExampleComJson
        /\ (resourceKind = Widget /\ resourceAPIVersion = V1)
               => filename = WidgetV1Json

\* C1 amended: generateFilename(K, "G/V") is
\* lowercase(K)-lowercase(first dot-segment of G)-lowercase(V).json (V
\* ending at a second "/", if there is one), and without a "/" it is
\* lowercase(K)-lowercase(first dot-segment of the string).json; Widget
\* with example.com/v1beta1 gives widget-example-v1beta1.json and Widget
\* with v1 gives widget-v1.json.
C1_GroupSegmentThenVersion ==
    pc = "named" =>
        /\ filename = ActualName(resourceKind, resourceAPIVersion)
        /\ (resourceKind = Widget /\ resourceAPIVersion = ExampleGV)
               => filename = WidgetExampleV1beta1Json
        /\ (resourceKind = Widget /\ resourceAPIVersion = V1)
               => filename = WidgetV1Json
        /\ (resourceKind = Ecole /\ resourceAPIVersion = V1)
               => filename = <<"é","c","o","l","e","-","v","1",
                               ".","j","s","o","n">>

C1_Witness ==
    /\ pc = "named"
    /\ resourceKind = Widget
    /\ resourceAPIVersion = ExampleGV
    /\ filename = WidgetExampleV1beta1Json

\* a version carries a schema: its Schema holds an OpenAPIV3Schema object
Carries(validation) == ~validation.isNil /\ validation.OpenAPIV3Schema # Nil

Extracted1 == extractorRan /\ crdObj.shape = "v1"
VersionIndexes == 1..Len(crdObj.Versions)
NameOfVersion(i) ==
    generateFilename(generatedCrdsPattern, crdObj.Kind,
                     Sprintf(crdObj.Group, crdObj.Versions[i].Name))
AllCarry == \A i \in VersionIndexes : Carries(crdObj.Versions[i].Schema)
DistinctNames ==
    \A i, j \in VersionIndexes :
        i # j => crdObj.Versions[i].Name # crdObj.Versions[j].Name
DistinctLowerNames ==
    \A i, j \in VersionIndexes :
        i # j => ToLower(crdObj.Versions[i].Name)
                     # ToLower(crdObj.Versions[j].Name)
NoSlashes ==
    /\ ~Contains(crdObj.Group, Slash)
    /\ \A i \in VersionIndexes : ~Contains(crdObj.Versions[i].Name, Slash)
OneEntryPerVersion ==
    /\ pc = "write"
    /\ Cardinality(DOMAIN schemas) = Len(crdObj.Versions)
    /\ \A i \in VersionIndexes :
          /\ NameOfVersion(i) \in DOMAIN schemas
          /\ NameOfVersion(i) = ActualName(crdObj.Kind,
                 Sprintf(crdObj.Group, crdObj.Versions[i].Name))

\* C2 as claimed: a v1 CRD with N versions of pairwise distinct names,
\* each carrying a schema, yields exactly N entries, one per version, each
\* under that version's filename.
C2_DistinctNamesDistinctKeys ==
    (Extracted1 /\ Len(crdObj.Versions) >= 1 /\ AllCarry /\ DistinctNames)
        => OneEntryPerVersion

\* C2 amended: a v1 CRD with N >= 1 versions, each carrying a schema
\* object, whose group and version names hold no "/" and whose version
\* names are pairwise distinct without regard to letter case, yields
\* exactly N entries, one per version, each under that version's filename
\* and holding that version's schema.
C2_DistinctLowerNamesDistinctKeys ==
    (Extracted1 /\ Len(crdObj.Versions) >= 1 /\ AllCarry /\ NoSlashes
        /\ DistinctLowerNames)
        => /\ OneEntryPerVersion
           /\ \A i \in VersionIndexes :
                 schemas[NameOfVersion(i)] =
                     MarshalIndent(crdObj.Versions[i].Schema.OpenAPIV3Schema)

C2_Witness ==
    /\ Extracted1 /\ Len(crdObj.Versions) = 2 /\ AllCarry /\ NoSlashes
    /\ DistinctLowerNames
    /\ Cardinality(DOMAIN schemas) = 2

NoVersionCarries ==
    \/ /\ crdObj.shape = "v1"
       /\ \A i \in VersionIndexes : ~Carries(crdObj.Versions[i].Schema)
    \/ /\ crdObj.shape = "v1beta1"
       /\ ~Carries(crdObj.Validation)

\* C3: a decoded CRD of either shape in which no version carries a schema
\* makes extraction fail with "No validation specified".
C3_NoSchemaIsAnError ==
    (extractorRan /\ NoVersionCarries)
        => pc = "done" /\ err = ErrNoValidation /\ schemas = EmptyMap

\* C4: a v1 CRD in which some version carries a schema is extracted
\* without error, with an entry for exactly the versions that carry one.
C4_EntriesForVersionsWithSchema ==
    (Extracted1 /\ \E i \in VersionIndexes : Carries(crdObj.Versions[i].Schema))
        => /\ pc = "write"
           /\ DOMAIN schemas =
                  {NameOfVersion(i) :
                      i \in {j \in VersionIndexes :
                                Carries(crdObj.Versions[j].Schema)}}

\* C9: extraction ends with a mapping or an error for every decoded
\* object and never aborts; a Schema or Validation without an
\* OpenAPIV3Schema object counts as no schema.
C9_ExtractionNeverAborts ==
    extractorRan => pc \in {"write", "done"}

Targets == {Join(outputDir, name) : name \in DOMAIN schemas}
InFiles(p) == \E i \in 1..Len(files) : files[i] = p
Wrote == pc = "done" /\ err \in {NoErr, ErrWriteFiles}

\* C5: when some writes fail, every file is still attempted: a file whose
\* write did not fail is on disk with its full content and in the
\* returned list, no failed path is in the list, and the error has one
\* line per failed file and none for a file that succeeded.
C5_FailuresAreAccumulated ==
    Wrote =>
        /\ \A name \in DOMAIN schemas :
              LET p == Join(outputDir, name)
              IN  IF p \in failed
                  THEN ~InFiles(p)
                  ELSE /\ InFiles(p)
                       /\ Exists(fs, p)
                       /\ fs[p] = FileEntry(schemas[name])
        /\ \A i \in 1..Len(files) : files[i] \in Targets \ failed
        /\ \A i, j \in 1..Len(files) : files[i] = files[j] => i = j
        /\ {msg[i].path : i \in 1..Len(msg)} = failed
        /\ Len(msg) = Cardinality(failed)
        /\ (err = ErrWriteFiles) = (failed # {})

C5_Witness ==
    /\ Wrote
    /\ failed # {}
    /\ files # <<>>
    /\ \A i \in 1..Len(files) : fs[files[i]].kind = "file"

\* C6: when reading or decoding fails, Generate returns that error with
\* an empty file list and the filesystem is as it was: nothing written,
\* removed or created.
C6_FailedInputLeavesNoTrace ==
    (pc = "done" /\ err \in ReadErrors \cup {ErrDecode})
        => files = <<>> /\ fs = fsStart /\ touched = {}

C6_Witness ==
    /\ pc = "done"
    /\ err = ErrDecode
    /\ decoderRan
    /\ fs = fsStart

\* C7: a run after a run with the same input and output directory leaves
\* the directory as the first left it; each target holds exactly the
\* serialized schema, an older file being replaced.
C7_SecondRunChangesNothing ==
    (pc = "done" /\ err = NoErr /\ extractorRan)
        => /\ \A name \in DOMAIN schemas :
                 /\ Exists(fs, Join(outputDir, name))
                 /\ fs[Join(outputDir, name)] = FileEntry(schemas[name])
           /\ prev = "ok" => fs = fsStart

C7_Witness ==
    /\ pc = "done"
    /\ err = NoErr
    /\ prev = "ok"
    /\ Len(files) = 2
    /\ fs = fsStart

NoSuchFile == ~isURL(specPath) /\ source.state = "notexist"

\* C8: for an argument that is no URL and names no file, the reader fails
\* with the not-found error; no HTTP request is sent and neither the
\* decoder nor the extractor is entered on that run.
C8_NotFoundBeforeAnythingElse ==
    NoSuchFile =>
        /\ ~httpIssued /\ ~decoderRan /\ ~extractorRan
        /\ pc \in {"start", "read", "done"}
        /\ pc = "done" => err \in {ErrNotFound, ErrWorkdir} /\ files = <<>>
        /\ (pc = "done" /\ outputDir # <<>>) => err = ErrNotFound

C8_Witness ==
    /\ NoSuchFile
    /\ pc = "done"
    /\ err = ErrNotFound

\* C10: every path Generate creates, removes, writes or returns lies
\* inside the resolved output directory, whatever the names of the CRD.
C10_PathsStayInOutputDir ==
    /\ \A p \in touched : IsPrefix(outputDir, p)
    /\ \A i \in 1..Len(files) : IsPrefix(outputDir, files[i])

====
